---- MODULE Spec2Model ----
(***************************************************************************)
(* schemastream: a streaming JSON decoder that validates every value       *)
(* against a schema fragment while binding it into a typed destination.    *)
(*                                                                         *)
(* The repository holds two revisions of the decoder:                      *)
(*   src/stream.go          (variant "stream")                             *)
(*   src/unnamed/part_002   (variant "part2": adds the destination check   *)
(*                           of ValidateParse, decodeValue and indirect)   *)
(* Both are modelled; the variant is chosen in Init.                       *)
(*                                                                         *)
(* The recursion of decodeAnything / decodeObject / decodeArray is modelled*)
(* with an explicit call stack.  The underlying json.Decoder is the        *)
(* environment: it hands out, one pull at a time, the next token of some   *)
(* conformant JSON document, or a stream error (malformed or truncated     *)
(* input).                                                                 *)
(***************************************************************************)
EXTENDS Integers, Sequences, FiniteSets, TLC

\* ------------------------------------------------------------------ bounds
\* Most tokens the underlying tokenizer hands out before the input ends.
MaxTokens == 8
\* Deepest nesting of objects and arrays in the input.
MaxDepth == 2
\* Most calls made on the token cursor when it is exercised on its own.
MaxCalls == 5
\* Deepest nesting, and most turns of one loop, where the paths are
\* followed as slices.
MaxPathDepth == 3
MaxTurns == 2

VARIABLES
    variant,    \* "stream" (src/stream.go) or "part2" (src/unnamed/part_002)
    scen,       \* index of the call's inputs in Scenarios
    dest,       \* the caller's `into` argument (the destination graph)
    tk,         \* state of the underlying json.Decoder
    read,       \* every result the underlying json.Decoder has returned
    nextRes,    \* Decoder.nextRes: <<>> (nil) or <<res>>
    stack,      \* call stack of decodeAnything/decodeObject/decodeArray
    ret,        \* <<>> or <<err>>: value returned to the frame on top
    status,     \* "init", "running", "done", "panic"
    result,     \* what ValidateParse returned (an error record or NoErr)
    writes,     \* the reflect Set calls made so far (place and what was set)
    calls,      \* the Decoder.Token / Decoder.nextToken calls made so far
                \* and what each returned
    arrays      \* the backing arrays of the Baton.path slices, where the
                \* paths are followed as the slices they are (PathSpec)

vars == <<variant, scen, dest, tk, read, nextRes, stack, ret, status, result, writes,
          calls, arrays>>

\* ------------------------------------------------------------ reflect types
TString == [k |-> "string"]
TBool == [k |-> "bool"]
TFloat64 == [k |-> "float64"]
TFloat32 == [k |-> "float32"]
TInt == [k |-> "int"]
TInt64 == [k |-> "int64"]
TUint8 == [k |-> "uint8"]
TPtr(t) == [k |-> "ptr", elem |-> t]
TSlice(t) == [k |-> "slice", elem |-> t]
TStruct(fs) == [k |-> "struct", fields |-> fs]
\* A struct field: its Go identifier, its json tag (if any) and its type.
Tagged(name, tag, t) == [name |-> name, hasTag |-> TRUE, tag |-> tag, type |-> t]
Untagged(name, t) == [name |-> name, hasTag |-> FALSE, tag |-> "", type |-> t]

FloatKinds == {"float64", "float32"}
\* reflect.Int .. reflect.Uint64 (the kinds of the model that lie in the range)
IntRangeKinds == {"int", "int64", "uint8"}
NumberKinds == FloatKinds \cup IntRangeKinds

\* ----------------------------------------------------------- reflect values
\* A value carries its kind; pointers and slices carry their element type.
StrVal(s) == [k |-> "string", s |-> s]
BoolVal(b) == [k |-> "bool", b |-> b]
NumVal(kind, n) == [k |-> kind, n |-> n]
NilPtr(t) == [k |-> "ptr", t |-> t, isnil |-> TRUE]
PtrTo(t, v) == [k |-> "ptr", t |-> t, isnil |-> FALSE, elem |-> v]
SliceVal(t, es) == [k |-> "slice", t |-> t, elems |-> es]
FieldVal(f, v) == [name |-> f.name, hasTag |-> f.hasTag, tag |-> f.tag, val |-> v]
StructVal(fvs) == [k |-> "struct", fields |-> fvs]

RECURSIVE Zero(_)
\* reflect.Zero / the zero value reflect.New allocates
Zero(t) ==
    CASE t.k = "string" -> StrVal("")
      [] t.k = "bool" -> BoolVal(FALSE)
      [] t.k \in NumberKinds -> NumVal(t.k, 0)
      [] t.k = "ptr" -> NilPtr(t.elem)
      [] t.k = "slice" -> SliceVal(t.elem, <<>>)
      [] t.k = "struct" ->
            StructVal([i \in 1..Len(t.fields) |->
                          FieldVal(t.fields[i], Zero(t.fields[i].type))])

\* reflect.New(t): a non-nil pointer to a fresh zero value
New(t) == PtrTo(t, Zero(t))

\* -------------------------------------------------------------- handles
\* A reflect.Value that refers into the destination graph: the graph it
\* lives in (base 0: the caller's argument; base n > 0: the element that
\* the decodeArray frame at stack[n] allocated with reflect.New) and the
\* steps from there (0: pointer dereference, i > 0: i-th struct field).
\* The zero reflect.Value (IsValid() = false) is Invalid.
Invalid == [valid |-> FALSE, base |-> 0, path |-> <<>>]
Handle(b, p) == [valid |-> TRUE, base |-> b, path |-> p]

RECURSIVE Get(_, _)
Get(v, p) ==
    IF p = <<>> THEN v
    ELSE IF Head(p) = 0 THEN Get(v.elem, Tail(p))
    ELSE Get(v.fields[Head(p)].val, Tail(p))

RECURSIVE Put(_, _, _)
Put(v, p, nv) ==
    IF p = <<>> THEN nv
    ELSE IF Head(p) = 0 THEN PtrTo(v.t, Put(v.elem, Tail(p), nv))
    ELSE [v EXCEPT !.fields[Head(p)].val = Put(@, Tail(p), nv)]

\* reflect.Value.CanSet: the value reflect.New returned is not addressable;
\* what a pointer points to, and the fields of that, are.
CanSet(h) == h.valid /\ h.path # <<>>

\* ---------------------------------------------------------------- tokens
Tok(t, v) == [t |-> t, v |-> v]
Delim(c) == Tok("delim", c)
NullTok == Tok("null", "null")
NoTok == Tok("none", "")
\* json.Number literals of the inputs and what strconv makes of them:
\* Float64() in tenths, Int64() (which fails on a fraction).
NumLits == {"1", "101", "1.5"}
Float64Of(lit) == CASE lit = "1" -> 10 [] lit = "101" -> 1010 [] lit = "1.5" -> 15
Int64Fails(lit) == lit = "1.5"
Int64Of(lit) == CASE lit = "1" -> 1 [] lit = "101" -> 101 [] OTHER -> 0

\* strings.ToLower on the identifiers and keys of the inputs
ToLower(s) ==
    CASE s \in {"UnTagged", "unTagged", "UNTAGGED"} -> "untagged"
      [] s \in {"Arr", "ARR"} -> "arr"
      [] s \in {"NilArr", "nilArr"} -> "nilarr"
      [] s \in {"Name", "NAME"} -> "name"
      [] s \in {"Alias"} -> "alias"
      [] s \in {"Num"} -> "num"
      [] s \in {"PP"} -> "pp"
      [] OTHER -> s

\* ---------------------------------------------------------------- errors
\* An error is its kind, the argument its message is formatted with (the
\* key of "Unknown Property %s") and the paths it was wrapped with, the
\* outermost first.
NoErr == [kind |-> "nil", arg |-> "", wraps |-> <<>>]
Err(kind) == [kind |-> kind, arg |-> "", wraps |-> <<>>]
\* fmt.Errorf("Unknown Property %s", keyName)
Errorf(kind, arg) == [kind |-> kind, arg |-> arg, wraps |-> <<>>]
\* errors.Wrapf with the last segment of the path alone
WrapfSegment(err, fieldPath) ==
    [err EXCEPT !.wraps = <<SubSeq(fieldPath, Len(fieldPath), Len(fieldPath))>> \o @]
\* errors.Wrapf(err, "At path %s", strings.Join(fieldPath, "."))
Wrapf(err, fieldPath) == [err EXCEPT !.wraps = <<fieldPath>> \o @]
IsErr(e) == e.kind # "nil"

\* --------------------------------------------------------------- schemas
\* What the decoder reads of a *spec.Schema: Type, Properties,
\* AdditionalProperties (nil, or its Allows flag), Items (nil, or its
\* Schema) and Maximum (in tenths).  NoSchema is the nil *spec.Schema.
NoSchema == [present |-> FALSE]
Sch(type, props, addl, items, hasMax, max) ==
    [present |-> TRUE, type |-> type, props |-> props, addl |-> addl,
     items |-> items, hasMax |-> hasMax, max |-> max]
NoProps == [x \in {} |-> NoSchema]
SType(t) == Sch({t}, NoProps, "nil", <<>>, FALSE, 0)
SObject(props, addl) == Sch({"object"}, props, addl, <<>>, FALSE, 0)
SArray(item) == Sch({"array"}, NoProps, "nil", <<item>>, FALSE, 0)
SNumberMax(m) == Sch({"number"}, NoProps, "nil", <<>>, TRUE, m)
\* The schema {} : no type, no constraint
SAny == Sch({}, NoProps, "nil", <<>>, FALSE, 0)

\* ---------------------------------------------------------------- inputs
\* src/stream_test.go:43-56
TChild == TStruct(<<Tagged("Foo", "foo", TString)>>)
TTestStruct ==
    TStruct(<<Tagged("String", "string", TString),
              Tagged("Float64", "float64", TFloat64),
              Untagged("UnTagged", TBool),
              Tagged("Extra", "extra", TString),
              Tagged("Child", "child", TChild),
              Tagged("Arr", "arr", TSlice(TString))>>)
\* src/stream_test.go:22-41
SChild == SObject("foo" :> SType("string"), "nil")
DefaultProps ==
    "string" :> SType("string") @@ "float64" :> SNumberMax(100) @@
    "unTagged" :> SType("boolean") @@ "child" :> SChild @@
    "arr" :> SArray(SType("string"))
DefaultSchema(addl) == SObject(DefaultProps, addl)
\* src/stream_test.go:109-117 and 125-138
TPointers ==
    TStruct(<<Tagged("Omit", "omit", TPtr(TString)),
              Tagged("NullValue", "nullValue", TPtr(TString)),
              Tagged("SetValue", "setValue", TPtr(TString)),
              Tagged("Child", "child", TPtr(TChild))>>)
PointersSchema ==
    SObject("nullValue" :> SType("string") @@ "setValue" :> SType("string") @@
            "omit" :> SType("string") @@ "child" :> SChild, "nil")
\* The same destination, every optional field present before the call.
PointersSet ==
    StructVal(<<FieldVal(TPointers.fields[1], PtrTo(TString, StrVal("old"))),
                FieldVal(TPointers.fields[2], PtrTo(TString, StrVal("old"))),
                FieldVal(TPointers.fields[3], PtrTo(TString, StrVal("old"))),
                FieldVal(TPointers.fields[4],
                         PtrTo(TChild, StructVal(<<FieldVal(TChild.fields[1], StrVal("old"))>>)))>>)
\* src/stream_test.go:205-207, 239-241, 280-283 and their schemas
TArr(elem) == TStruct(<<Untagged("Arr", elem)>>)
ArrSchema == SObject("arr" :> SArray(SType("string")), "nil")
TPtrArr == TStruct(<<Untagged("Arr", TPtr(TSlice(TString))),
                     Untagged("NilArr", TPtr(TSlice(TString)))>>)
PtrArrSchema ==
    SObject("arr" :> SArray(SType("string")) @@ "nilArr" :> SArray(SType("string")), "nil")
\* A sequence destination that holds an element before the call.
ArrSet == StructVal(<<FieldVal(TArr(TSlice(TString)).fields[1],
                               SliceVal(TString, <<StrVal("x")>>))>>)

\* A record whose fields show every way the field map treats a field:
\*   Name  string `json:",omitempty"`   (a tag that declares no name)
\*   Alias string                       (no tag)
\*   Num   string `json:"alias"`        (a tag that names it "alias")
TFieldMap ==
    TStruct(<<Tagged("Name", "", TString),
              Untagged("Alias", TString),
              Tagged("Num", "alias", TString)>>)
FieldMapSchema ==
    SObject("name" :> SType("string") @@ "alias" :> SType("string") @@
            "Alias" :> SType("string") @@ "num" :> SType("string"), "nil")

\* A record with a field of every numeric kind of the model, and of a kind
\* that is not numeric, each declared a number
TNumbers ==
    TStruct(<<Tagged("F64", "f64", TFloat64), Tagged("F32", "f32", TFloat32),
              Tagged("I", "i", TInt), Tagged("I64", "i64", TInt64),
              Tagged("U8", "u8", TUint8), Tagged("S", "s", TString)>>)
NumbersSchema ==
    SObject("f64" :> SType("number") @@ "f32" :> SType("number") @@
            "i" :> SType("integer") @@ "i64" :> SType("integer") @@
            "u8" :> SType("integer") @@ "s" :> SType("number"), "nil")
\* {"type": "object", "properties": {"arr": {"type": "array"}}}: an array
\* with no items
NoItemsSchema == SObject("arr" :> SType("array"), "nil")

DefaultScalars ==
    {Tok("string", "a"), Tok("number", "1"), Tok("number", "101"),
     Tok("bool", "true"), NullTok}

\* One call of ValidateParse: the `into` argument, the schema, and the
\* keys and scalars the document is made of.
Scenario(arg, schema, keys, scalars) ==
    [arg |-> arg, schema |-> schema, keys |-> keys, scalars |-> scalars]

Scenarios == <<
    \* into is not a pointer / is a nil pointer / is the nil interface
    Scenario(Zero(TTestStruct), DefaultSchema("nil"), {"string"}, DefaultScalars),
    Scenario(NilPtr(TTestStruct), DefaultSchema("nil"), {"string"}, DefaultScalars),
    Scenario([k |-> "invalid"], DefaultSchema("nil"), {"string"}, DefaultScalars),
    \* the tests' TestStruct under the three additional-properties policies
    Scenario(New(TTestStruct), DefaultSchema("nil"),
             {"string", "float64", "missing"}, DefaultScalars),
    Scenario(New(TTestStruct), DefaultSchema("deny"),
             {"missing", "unTagged"}, DefaultScalars),
    Scenario(New(TTestStruct), DefaultSchema("allow"),
             {"missing", "extra", "string"}, DefaultScalars),
    Scenario(New(TTestStruct), DefaultSchema("nil"),
             {"child", "foo", "arr"}, {Tok("string", "a"), NullTok}),
    \* no root schema
    Scenario(New(TTestStruct), NoSchema, {"string"}, DefaultScalars),
    \* optional (pointer) fields, absent and present before the call
    Scenario(New(TPointers), PointersSchema,
             {"nullValue", "setValue", "omit"}, {Tok("string", "a"), Tok("number", "1"), NullTok}),
    Scenario(PtrTo(TPointers, PointersSet), PointersSchema,
             {"nullValue", "setValue"}, {Tok("string", "a"), Tok("number", "1"), NullTok}),
    Scenario(New(TPointers), PointersSchema,
             {"child", "foo"}, {Tok("string", "a"), NullTok}),
    Scenario(PtrTo(TPointers, PointersSet), PointersSchema,
             {"child", "foo"}, {Tok("string", "a"), NullTok}),
    \* sequences
    Scenario(New(TArr(TSlice(TString))), ArrSchema, {"arr"},
             {Tok("string", "a"), Tok("string", "b"), Tok("number", "1"), NullTok}),
    Scenario(PtrTo(TArr(TSlice(TString)), ArrSet), ArrSchema, {"arr"},
             {Tok("string", "a"), Tok("number", "1"), NullTok}),
    Scenario(New(TArr(TSlice(TPtr(TString)))), ArrSchema, {"arr"},
             {Tok("string", "a"), Tok("string", "b"), NullTok}),
    Scenario(New(TPtrArr), PtrArrSchema, {"arr", "nilArr"},
             {Tok("string", "a"), NullTok}),
    \* into is a pointer to a sequence, the document an array
    Scenario(New(TSlice(TString)), SArray(SType("string")), {},
             {Tok("string", "a"), Tok("number", "1"), NullTok}),
    \* keys against tags and identifiers
    Scenario(New(TFieldMap), FieldMapSchema, {"name", "alias", "Alias", "num"},
             {Tok("string", "a")}),
    \* properties the schema declares and the destination has no field for
    Scenario(New(TChild), DefaultSchema("nil"), {"string", "child", "arr", "foo"},
             {Tok("string", "a"), Tok("number", "1")}),
    \* properties declared with no type
    Scenario(New(TTestStruct),
             SObject("string" :> SAny @@ "float64" :> SAny @@ "unTagged" :> SAny, "nil"),
             {"string", "float64", "unTagged"},
             {Tok("string", "a"), Tok("number", "1"), Tok("bool", "true")}),
    \* numbers into every numeric kind
    Scenario(New(TNumbers), NumbersSchema, {"f64", "f32", "i", "i64", "u8", "s"},
             {Tok("number", "1"), Tok("number", "1.5")}),
    \* an array under a schema without items
    Scenario(New(TArr(TSlice(TString))), NoItemsSchema, {"arr"}, {Tok("string", "a")})
>>

Variants == {"stream", "part2"}

\* ------------------------------------------------------------- tokenizer
\* encoding/json's Decoder.Token as the decoder sees it: it returns the
\* tokens of one JSON document in order (the delimiters { } [ ], object
\* keys and string values as strings, numbers as json.Number, booleans,
\* nil), then io.EOF; malformed or truncated input gives an error at that
\* point and at every later call.
\* tk.open is the stack of open delimiters; tk.expect is what may follow:
\* "value" (the root value, or the value of a key), "key" (a key or }),
\* "elem" (an element or ]), "eof", "err".
AfterValue(open) ==
    IF open = <<>> THEN "eof"
    ELSE IF open[Len(open)] = "{" THEN "key" ELSE "elem"

Front(s) == SubSeq(s, 1, Len(s) - 1)

ValueTokens(t, sc) ==
    {[tok |-> s, err |-> FALSE, tk |-> [open |-> t.open, expect |-> AfterValue(t.open)]] :
        s \in sc.scalars}
    \cup
    IF Len(t.open) < MaxDepth
    THEN {[tok |-> Delim("{"), err |-> FALSE,
           tk |-> [open |-> Append(t.open, "{"), expect |-> "key"]],
          [tok |-> Delim("["), err |-> FALSE,
           tk |-> [open |-> Append(t.open, "["), expect |-> "elem"]]}
    ELSE {}

CloseToken(t, c) ==
    [tok |-> Delim(c), err |-> FALSE,
     tk |-> [open |-> Front(t.open), expect |-> AfterValue(Front(t.open))]]

StreamErr(t) == [tok |-> NoTok, err |-> TRUE, tk |-> [t EXCEPT !.expect = "err"]]

\* The results d.jsonDecoder.Token() may give after n earlier calls.
JsonDecoderToken(t, n, sc) ==
    IF t.expect \in {"eof", "err"} THEN {[tok |-> NoTok, err |-> TRUE, tk |-> t]}
    ELSE IF n >= MaxTokens THEN {StreamErr(t)}
    ELSE {StreamErr(t)} \cup
         CASE t.expect = "value" -> ValueTokens(t, sc)
           [] t.expect = "elem" -> ValueTokens(t, sc) \cup {CloseToken(t, "]")}
           [] t.expect = "key" ->
                {[tok |-> Tok("string", key), err |-> FALSE,
                  tk |-> [t EXCEPT !.expect = "value"]] : key \in sc.keys}
                \cup {CloseToken(t, "}")}

\* ---------------------------------------------------------- token cursor
Res(o) == [token |-> o.tok, err |-> o.err]

\* Token without `d.nextRes = nil`: the buffered result is handed out and
\* stays buffered.
TokenKeepsBuffer(nr, t, rd, sc) ==
    IF nr # <<>>
    THEN {[op |-> "Token", res |-> nr[1], nextRes |-> nr, tk |-> t, read |-> rd]}
    ELSE {[op |-> "Token", res |-> Res(o), nextRes |-> <<>>, tk |-> o.tk,
           read |-> Append(rd, Res(o))] :
             o \in JsonDecoderToken(t, Len(rd), sc)}

\* Decoder.Token: every outcome, as the result and the new cursor state.
Token(nr, t, rd, sc) ==
    IF nr # <<>>
    THEN {[op |-> "Token", res |-> nr[1], nextRes |-> <<>>, tk |-> t, read |-> rd]}
    ELSE {[op |-> "Token", res |-> Res(o), nextRes |-> <<>>, tk |-> o.tk,
           read |-> Append(rd, Res(o))] :
             o \in JsonDecoderToken(t, Len(rd), sc)}

\* nextToken that hands out what it pulls without keeping it in nextRes
NextTokenUnbuffered(nr, t, rd, sc) ==
    {[op |-> "nextToken", res |-> Res(o), nextRes |-> <<>>, tk |-> o.tk,
      read |-> Append(rd, Res(o))] :
        o \in JsonDecoderToken(t, Len(rd), sc)}

\* Decoder.nextToken: peek, filling the one-slot buffer when it is empty.
NextToken(nr, t, rd, sc) ==
    IF nr = <<>>
    THEN {[op |-> "nextToken", res |-> Res(o), nextRes |-> <<Res(o)>>, tk |-> o.tk,
           read |-> Append(rd, Res(o))] :
             o \in JsonDecoderToken(t, Len(rd), sc)}
    ELSE {[op |-> "nextToken", res |-> nr[1], nextRes |-> nr, tk |-> t, read |-> rd]}

\* ------------------------------------------------- destination resolver
\* reflect.Value.Elem().Kind() of a pointer: Invalid when the pointer is nil
ElemKind(v) == IF v.isnil THEN "invalid" ELSE v.elem.k

RECURSIVE indirect(_, _, _)
\* indirect(v, decodingNull): walks down v allocating pointers as needed
\* until it gets to a non-pointer.  The result is the steps walked, v with
\* the allocations made, and the (relative) places that were allocated.
\* The model's types are unnamed or have no methods, and no destination
\* is an interface: the Unmarshaler and interface branches do not apply.
indirect(v, decodingNull, canSet) ==
    IF v.k # "ptr" THEN [steps |-> <<>>, val |-> v, allocs |-> <<>>]
    ELSE IF ElemKind(v) # "ptr" /\ decodingNull /\ canSet
    THEN [steps |-> <<>>, val |-> v, allocs |-> <<>>]
    ELSE LET a == IF v.isnil THEN New(v.t) ELSE v
             r == indirect(a.elem, decodingNull, TRUE)
         IN [steps |-> <<0>> \o r.steps,
             val |-> PtrTo(a.t, r.val),
             allocs |-> (IF v.isnil THEN <<<<>>>> ELSE <<>>) \o
                        [i \in 1..Len(r.allocs) |-> <<0>> \o r.allocs[i]]]

\* ------------------------------------------------- external schema checker
\* validate.AgainstSchema(schema, token, strfmt.Default) of go-openapi: the
\* type set and the maximum of the fragment against one scalar token.  A
\* json.Number under a fragment that has neither number nor integer is a
\* string to some releases of the library and a number to others, and nil
\* data is accepted unchecked by some releases and type-checked by others:
\* both verdicts are possible there.
TokenFits(schema, token) ==
    CASE token.t = "string" -> "string" \in schema.type
      [] token.t = "number" ->
            "number" \in schema.type \/
            ("integer" \in schema.type /\ ~Int64Fails(token.v))
      [] token.t = "bool" -> "boolean" \in schema.type
      [] token.t = "null" -> "null" \in schema.type
      [] OTHER -> FALSE

AgainstSchema(schema, token) ==
    IF schema.type = {} THEN {NoErr}
    ELSE IF ~TokenFits(schema, token)
    THEN {Err("CheckerType")} \cup
         (IF (token.t = "number" /\ "string" \in schema.type) \/ token.t = "null"
          THEN {NoErr} ELSE {})
    ELSE IF token.t = "number" /\ schema.hasMax /\ Float64Of(token.v) > schema.max
    THEN {Err("CheckerMaximum")}
    ELSE {NoErr}

\* ------------------------------------------------------------ scalar bind
\* The outcome of binding one value: the error returned (or NoErr), the
\* graph the handle lives in after the call, the reflect Set calls made on
\* it (place and what was set), and whether the call panicked.
Outcome(err, root, sets) == [panic |-> FALSE, err |-> err, root |-> root, sets |-> sets]
Panicked(root, sets) == [panic |-> TRUE, err |-> NoErr, root |-> root, sets |-> sets]
SetEvent(b, p, what) == [base |-> b, path |-> p, what |-> what]

\* into.Set(reflect.ValueOf(x)) panics unless x's type is assignable to the
\* type of into: a float64 to a float64, an int64 to an int64.
SetScalar(root, b, p, nv, sets) ==
    IF Get(root, p).k # nv.k THEN Panicked(root, sets)
    ELSE Outcome(NoErr, Put(root, p, nv), Append(sets, SetEvent(b, p, "value")))

\* switch tokenVal := token.(type): stream.go:117-164, part_002:129-176
ScalarSwitch(schema, token, root, b, p, sets) ==
    LET intoKind == Get(root, p).k IN
    CASE token.t = "string" ->
            IF intoKind # "string" THEN Outcome(Err("StringKind"), root, sets)
            ELSE SetScalar(root, b, p, StrVal(token.v), sets)
      [] token.t = "number" ->
            IF ~("number" \in schema.type \/ "integer" \in schema.type)
            THEN Outcome(Err("UnexpectedNumber"), root, sets)
            ELSE IF intoKind \in FloatKinds
            THEN SetScalar(root, b, p, NumVal("float64", Float64Of(token.v)), sets)
            ELSE IF intoKind \in IntRangeKinds
            THEN IF Int64Fails(token.v) THEN Outcome(Err("ParseInt"), root, sets)
                 ELSE SetScalar(root, b, p, NumVal("int64", Int64Of(token.v)), sets)
            ELSE Outcome(Err("NumberKind"), root, sets)
      [] token.t = "bool" ->
            IF "boolean" \notin schema.type THEN Outcome(Err("BoolType"), root, sets)
            ELSE IF intoKind # "bool" THEN Outcome(Err("BoolKind"), root, sets)
            ELSE SetScalar(root, b, p, BoolVal(token.v = "true"), sets)
      [] token.t = "null" -> Outcome(NoErr, root, sets)
      [] OTHER -> Outcome(Err("UnknownType"), root, sets)

\* decodeValue of part_002:102-177
decodeValue(schema, into, token, root) ==
    IF ~schema.present THEN {Outcome(NoErr, root, <<>>)}
    ELSE IF ~into.valid THEN {Outcome(NoErr, root, <<>>)}
    ELSE IF token.t = "null" THEN {Outcome(NoErr, root, <<>>)}
    ELSE LET ind == indirect(Get(root, into.path), token.t = "null", CanSet(into))
             root1 == Put(root, into.path, ind.val)
             sets == [i \in 1..Len(ind.allocs) |->
                         SetEvent(into.base, into.path \o ind.allocs[i], "alloc")]
             p == into.path \o ind.steps
         IN {IF IsErr(c) THEN Outcome(c, root1, sets)
             ELSE ScalarSwitch(schema, token, root1, into.base, p, sets) :
                 c \in AgainstSchema(schema, token)}

\* The scalar part of decodeAnything in stream.go:91-164
decodeScalar(schema, into, token, root) ==
    IF ~schema.present THEN {Outcome(NoErr, root, <<>>)}
    ELSE IF ~into.valid THEN {Outcome(NoErr, root, <<>>)}
    ELSE LET v == Get(root, into.path) IN
         IF v.k = "ptr" /\ v.isnil THEN {Panicked(root, <<>>)}
         ELSE LET p == IF v.k = "ptr" THEN into.path \o <<0>> ELSE into.path
              IN {IF IsErr(c) THEN Outcome(c, root, <<>>)
                  ELSE ScalarSwitch(schema, token, root, into.base, p, <<>>) :
                      c \in AgainstSchema(schema, token)}

\* ------------------------------------------------------------- field map
Max(S) == CHOOSE x \in S : \A y \in S : y <= x
TagIdx(sv) == {i \in 1..Len(sv.fields) : sv.fields[i].hasTag}
NameIdx(sv) == {i \in 1..Len(sv.fields) : ~sv.fields[i].hasTag}
\* fieldsByTag and backupFieldsByTag of decodeObject: a later field of the
\* same name replaces an earlier one.
fieldsByTag(sv) ==
    [t \in {sv.fields[i].tag : i \in TagIdx(sv)} |->
        Max({i \in TagIdx(sv) : sv.fields[i].tag = t})]
backupFieldsByTag(sv) ==
    [n \in {ToLower(sv.fields[i].name) : i \in NameIdx(sv)} |->
        Max({i \in NameIdx(sv) : ToLower(sv.fields[i].name) = n})]
\* The lookup falling back on the record's first field when neither map
\* holds the key
LookupFieldOrFirst(sv, keyName) ==
    IF keyName \in DOMAIN fieldsByTag(sv) THEN fieldsByTag(sv)[keyName]
    ELSE IF ToLower(keyName) \in DOMAIN backupFieldsByTag(sv)
    THEN backupFieldsByTag(sv)[ToLower(keyName)]
    ELSE 1

\* The field a key binds to (0: none, the zero reflect.Value)
LookupField(sv, keyName) ==
    IF keyName \in DOMAIN fieldsByTag(sv) THEN fieldsByTag(sv)[keyName]
    ELSE IF ToLower(keyName) \in DOMAIN backupFieldsByTag(sv)
    THEN backupFieldsByTag(sv)[ToLower(keyName)]
    ELSE 0

\* ---------------------------------------------------------------- frames
\* A Baton and the locals of the function that holds it.  fn is "any"
\* (decodeAnything before its token), "obj" (decodeObject), "arr"
\* (decodeArray); pc is "entry", "loop" (at the head of the for loop) or
\* "await" (in the recursive decodeAnything call).
NoValue == [k |-> "none"]
Frame(fn, schema, into, path) ==
    [fn |-> fn, pc |-> "entry", schema |-> schema, into |-> into, path |-> path,
     rec |-> Invalid, itemType |-> NoValue, arrayValue |-> NoValue,
     field |-> NoValue, idx |-> 0, fieldPath |-> <<>>]

Sc == Scenarios[scen]
Top == stack[Len(stack)]
Running == status = "running" /\ stack # <<>>
\* The graph a handle lives in, seen from the call stack stk
RootOf(stk, h) == IF h.base = 0 THEN dest ELSE stk[h.base].field

Init ==
    /\ variant \in Variants
    /\ scen \in 1..Len(Scenarios)
    /\ dest = Scenarios[scen].arg
    /\ tk = [open |-> <<>>, expect |-> "value"]
    /\ read = <<>>
    /\ nextRes = <<>>
    /\ stack = <<>>
    /\ ret = <<>>
    /\ status = "init"
    /\ result = NoErr
    /\ writes = <<>>
    /\ calls = <<>>
    /\ arrays = <<>>

\* `return r` from the frame on top, stk being the stack below it; the
\* return of the outermost decodeAnything is the return of ValidateParse.
Return(stk, r) ==
    /\ stack' = stk
    /\ ret' = IF stk = <<>> THEN <<>> ELSE <<r>>
    /\ status' = IF stk = <<>> THEN "done" ELSE "running"
    /\ result' = IF stk = <<>> THEN r ELSE result

Panic ==
    /\ status' = "panic"
    /\ UNCHANGED <<stack, ret, result>>

\* The cursor after the call whose outcome is o
Call(o) == [op |-> o.op, res |-> o.res]

Cursor(o) ==
    /\ nextRes' = o.nextRes
    /\ tk' = o.tk
    /\ read' = o.read
    /\ calls' = Append(calls, Call(o))

\* The cursor after two calls, d made in the state o left
CursorAfter(o, d) ==
    /\ nextRes' = d.nextRes
    /\ tk' = d.tk
    /\ read' = d.read
    /\ calls' = calls \o <<Call(o), Call(d)>>

\* The destination graphs after a call that left `root` in the graph of
\* handle h, the stack being stk otherwise.
Store(stk, h, root) ==
    IF h.base = 0 THEN [dest |-> root, stack |-> stk]
    ELSE [dest |-> dest, stack |-> [stk EXCEPT ![h.base].field = root]]

\* ------------------------------------------------------------ entry point
\* stream.go:52-66 takes reflect.ValueOf(into).Elem() unchecked: Elem
\* panics unless into is a pointer (or interface), and is the zero Value
\* for a nil pointer.  part_002:53-74 returns *json.InvalidUnmarshalError
\* for both.
ValidateParseStream ==
    /\ variant = "stream"
    /\ IF dest.k # "ptr"
       THEN Panic
       ELSE /\ stack' = <<Frame("any", Sc.schema,
                                IF dest.isnil THEN Invalid ELSE Handle(0, <<0>>), <<>>)>>
            /\ status' = "running"
            /\ UNCHANGED <<ret, result>>

\* rv.Kind() != reflect.Ptr || rv.IsNil(): part_002:58
InvalidDestination(rv) == rv.k # "ptr" \/ rv.isnil

ValidateParsePart2 ==
    /\ variant = "part2"
    /\ IF InvalidDestination(dest)
       THEN /\ status' = "done"
            /\ result' = Err("InvalidDestination")
            /\ UNCHANGED <<stack, ret>>
       ELSE /\ stack' = <<Frame("any", Sc.schema, Handle(0, <<0>>), <<>>)>>
            /\ status' = "running"
            /\ UNCHANGED <<ret, result>>

ValidateParse ==
    /\ status = "init"
    /\ ValidateParseStream \/ ValidateParsePart2
    /\ UNCHANGED <<arrays, variant, scen, dest, tk, read, nextRes, writes, calls>>

\* ---------------------------------------------------------- decodeAnything
\* The scalar binding of the variant at hand
BindScalar(schema, into, token, root) ==
    IF variant = "part2" THEN decodeValue(schema, into, token, root)
    ELSE decodeScalar(schema, into, token, root)

\* decodeAnything: stream.go:72-97, part_002:80-100.  A '{' or '[' hands
\* the Baton to decodeObject or decodeArray, whose return is its return.
decodeAnything ==
    /\ Running /\ Top.fn = "any" /\ ret = <<>>
    /\ \E o \in Token(nextRes, tk, read, Sc) :
        /\ Cursor(o)
        /\ LET below == Front(stack)
               token == o.res.token
           IN IF o.res.err
              THEN Return(below, Err("StreamError")) /\ UNCHANGED <<dest, writes>>
              ELSE IF token = Delim("{")
              THEN /\ stack' = [stack EXCEPT ![Len(stack)].fn = "obj"]
                   /\ UNCHANGED <<dest, writes, ret, status, result>>
              ELSE IF token = Delim("[")
              THEN /\ stack' = [stack EXCEPT ![Len(stack)].fn = "arr"]
                   /\ UNCHANGED <<dest, writes, ret, status, result>>
              ELSE IF token.t = "delim"
              THEN Return(below, Err("UnknownToken")) /\ UNCHANGED <<dest, writes>>
              ELSE \E d \in BindScalar(Top.schema, Top.into, token,
                                       RootOf(below, Top.into)) :
                     LET st == Store(below, Top.into, d.root) IN
                     /\ dest' = st.dest
                     /\ writes' = writes \o d.sets
                     /\ IF d.panic
                        THEN status' = "panic" /\ stack' = stack /\ UNCHANGED <<ret, result>>
                        ELSE Return(st.stack, d.err)
    /\ UNCHANGED <<arrays, variant, scen>>

\* ------------------------------------------------------------ decodeObject
SetTop(f) == [stack EXCEPT ![Len(stack)] = f]

\* decodeObject up to its loop: stream.go:208-227, part_002:220-244.
\* baton.into.Type() panics on the zero Value, baton.schema.Type on the nil
\* schema, NumField on anything but a struct.  part_002 resolves the
\* destination with indirect first; stream.go uses baton.into as it is.
decodeObjectEntry ==
    /\ Running /\ Top.fn = "obj" /\ Top.pc = "entry"
    /\ LET f == Top
           below == Front(stack)
           root == RootOf(below, f.into)
       IN IF ~f.into.valid \/ ~f.schema.present
          THEN Panic /\ UNCHANGED <<dest, writes>>
          ELSE IF "object" \notin f.schema.type
          THEN Return(below, Err("NotExpectingObject")) /\ UNCHANGED <<dest, writes>>
          ELSE LET ind == IF variant = "part2"
                          THEN indirect(Get(root, f.into.path), FALSE, CanSet(f.into))
                          ELSE [steps |-> <<>>, val |-> Get(root, f.into.path),
                                allocs |-> <<>>]
                   root1 == Put(root, f.into.path, ind.val)
                   st == Store(stack, f.into, root1)
                   rec == Handle(f.into.base, f.into.path \o ind.steps)
               IN /\ dest' = st.dest
                  /\ writes' = writes \o
                        [i \in 1..Len(ind.allocs) |->
                            SetEvent(f.into.base, f.into.path \o ind.allocs[i], "alloc")]
                  /\ IF Get(root1, rec.path).k # "struct"
                     THEN status' = "panic" /\ stack' = st.stack /\ UNCHANGED <<ret, result>>
                     ELSE /\ stack' = [st.stack EXCEPT ![Len(stack)].pc = "loop",
                                                       ![Len(stack)].rec = rec]
                          /\ UNCHANGED <<ret, status, result>>
    /\ UNCHANGED <<arrays, variant, scen, tk, read, nextRes, calls>>

\* The policy test with an absent AdditionalProperties read as permission
\* (only Allows = false denies).
AdditionalAllowedNilPermits(schema) == schema.addl # "deny"

\* baton.schema.AdditionalProperties == nil || !...Allows, negated:
\* stream.go:252, part_002:269
AdditionalAllowed(schema) == schema.addl = "allow"

\* One turn of decodeObject's loop up to the recursive call:
\* stream.go:229-263, part_002:246-280.
decodeObjectKey ==
    /\ Running /\ Top.fn = "obj" /\ Top.pc = "loop" /\ ret = <<>>
    /\ \E o \in Token(nextRes, tk, read, Sc) :
        /\ Cursor(o)
        /\ LET f == Top
               below == Front(stack)
               keyToken == o.res.token
               keyName == keyToken.v
               sv == Get(RootOf(below, f.rec), f.rec.path)
               fi == LookupField(sv, keyName)
               field == IF fi = 0 THEN Invalid
                        ELSE Handle(f.rec.base, Append(f.rec.path, fi))
               ok == keyName \in DOMAIN f.schema.props
               fieldSchema == IF ok THEN f.schema.props[keyName] ELSE NoSchema
               fieldPath == Append(f.path, keyName)
           IN IF o.res.err THEN Return(below, Err("StreamError"))
              ELSE IF keyToken = Delim("}") THEN Return(below, NoErr)
              ELSE IF keyToken.t # "string" THEN Return(below, Err("MalformedKey"))
              ELSE IF ~ok /\ ~AdditionalAllowed(f.schema)
              THEN Return(below, Errorf("UnknownProperty", keyName))
              ELSE /\ stack' = Append(SetTop([f EXCEPT !.pc = "await",
                                                       !.fieldPath = fieldPath]),
                                      Frame("any", fieldSchema, field, fieldPath))
                   /\ UNCHANGED <<ret, status, result>>
    /\ UNCHANGED <<arrays, variant, scen, dest, writes>>

\* decodeObject going on with the next key whatever the recursive call
\* returned: the return at stream.go:264 left out.
decodeObjectReturnSwallowed ==
    /\ Running /\ Top.fn = "obj" /\ Top.pc = "await" /\ ret # <<>>
    /\ stack' = SetTop([Top EXCEPT !.pc = "loop"])
    /\ ret' = <<>>
    /\ UNCHANGED <<status, result>>
    /\ UNCHANGED <<arrays, variant, scen, dest, tk, read, nextRes, writes, calls>>

\* The return of the recursive call in decodeObject: stream.go:259-267,
\* part_002:276-284.
decodeObjectReturn ==
    /\ Running /\ Top.fn = "obj" /\ Top.pc = "await" /\ ret # <<>>
    /\ IF IsErr(ret[1])
       THEN Return(Front(stack), Wrapf(ret[1], Top.fieldPath))
       ELSE /\ stack' = SetTop([Top EXCEPT !.pc = "loop"])
            /\ ret' = <<>>
            /\ UNCHANGED <<status, result>>
    /\ UNCHANGED <<arrays, variant, scen, dest, tk, read, nextRes, writes, calls>>

\* ------------------------------------------------------------- decodeArray
\* decodeArray up to its loop: stream.go:167-176, part_002:179-188.
\* baton.schema.Type panics on the nil schema, baton.into.Type() on the
\* zero Value, Type().Elem() on a type that has no element type.
decodeArrayEntry ==
    /\ Running /\ Top.fn = "arr" /\ Top.pc = "entry"
    /\ LET f == Top
           below == Front(stack)
       IN IF ~f.schema.present THEN Panic
          ELSE IF "array" \notin f.schema.type
          THEN Return(below, Err("NotExpectingArray"))
          ELSE IF ~f.into.valid THEN Panic
          ELSE LET v == Get(RootOf(below, f.into), f.into.path) IN
               IF v.k \notin {"ptr", "slice"} THEN Panic
               ELSE /\ stack' = SetTop([f EXCEPT !.pc = "loop", !.itemType = v.t,
                                                 !.arrayValue = v, !.idx = 0])
                    /\ UNCHANGED <<ret, status, result>>
    /\ UNCHANGED <<arrays, variant, scen, dest, tk, read, nextRes, writes, calls>>

\* decodeArray's loop peeking again after an error of the tokenizer: the
\* return at stream.go:180-182 left out, the sequence left as it is.
decodeArrayElemRetries ==
    /\ Running /\ Top.fn = "arr" /\ Top.pc = "loop" /\ ret = <<>>
    /\ \E o \in NextToken(nextRes, tk, read, Sc) :
        LET f == Top
            below == Front(stack)
            fieldPath == Append(f.path, ToString(f.idx))
        IN IF o.res.err
           THEN Cursor(o) /\ UNCHANGED <<stack, ret, status, result, dest, writes>>
           ELSE IF o.res.token = Delim("]")
           THEN IF ~CanSet(f.into)
                THEN Cursor(o) /\ Panic /\ UNCHANGED <<dest, writes>>
                ELSE LET st == Store(below, f.into,
                                     Put(RootOf(below, f.into), f.into.path, f.arrayValue))
                     IN /\ dest' = st.dest
                        /\ writes' = Append(writes,
                                            SetEvent(f.into.base, f.into.path, "array"))
                        /\ \E d \in Token(o.nextRes, o.tk, o.read, Sc) : CursorAfter(o, d)
                        /\ Return(st.stack, NoErr)
           ELSE /\ Cursor(o)
                /\ UNCHANGED <<dest, writes>>
                /\ IF f.schema.items = <<>>
                   THEN Panic
                   ELSE /\ stack' = Append(SetTop([f EXCEPT !.pc = "await",
                                                            !.field = New(f.itemType),
                                                            !.fieldPath = fieldPath]),
                                           Frame("any", f.schema.items[1],
                                                 Handle(Len(stack), <<>>), fieldPath))
                        /\ UNCHANGED <<ret, status, result>>
    /\ UNCHANGED <<arrays, variant, scen>>

\* One turn of decodeArray's loop up to the recursive call:
\* stream.go:177-198, part_002:189-210.  The closing delimiter is peeked,
\* the accumulated sequence is set into the destination (Set panics on a
\* value that is not settable) and the peeked token is discarded.
decodeArrayElem ==
    /\ Running /\ Top.fn = "arr" /\ Top.pc = "loop" /\ ret = <<>>
    /\ \E o \in NextToken(nextRes, tk, read, Sc) :
        LET f == Top
            below == Front(stack)
            fieldPath == Append(f.path, ToString(f.idx))
        IN IF o.res.err
           THEN Cursor(o) /\ Return(below, Err("StreamError")) /\ UNCHANGED <<dest, writes>>
           ELSE IF o.res.token = Delim("]")
           THEN IF ~CanSet(f.into)
                THEN Cursor(o) /\ Panic /\ UNCHANGED <<dest, writes>>
                ELSE LET st == Store(below, f.into,
                                     Put(RootOf(below, f.into), f.into.path, f.arrayValue))
                     IN /\ dest' = st.dest
                        /\ writes' = Append(writes,
                                            SetEvent(f.into.base, f.into.path, "array"))
                        /\ \E d \in Token(o.nextRes, o.tk, o.read, Sc) : CursorAfter(o, d)
                        /\ Return(st.stack, NoErr)
           ELSE /\ Cursor(o)
                /\ UNCHANGED <<dest, writes>>
                /\ IF f.schema.items = <<>>
                   THEN Panic
                   ELSE /\ stack' = Append(SetTop([f EXCEPT !.pc = "await",
                                                            !.field = New(f.itemType),
                                                            !.fieldPath = fieldPath]),
                                           Frame("any", f.schema.items[1],
                                                 Handle(Len(stack), <<>>), fieldPath))
                        /\ UNCHANGED <<ret, status, result>>
    /\ UNCHANGED <<arrays, variant, scen>>

\* decodeArrayReturn with `baton.into.Set(arrayValue)` moved into the
\* loop, after each reflect.Append: the sequence grows in the destination
\* element by element.
decodeArrayReturnEager ==
    /\ Running /\ Top.fn = "arr" /\ Top.pc = "await" /\ ret # <<>>
    /\ IF IsErr(ret[1])
       THEN Return(Front(stack), Wrapf(ret[1], Top.fieldPath)) /\ UNCHANGED <<dest, writes>>
       ELSE IF Top.arrayValue.k # "slice" \/ ~CanSet(Top.into)
       THEN Panic /\ UNCHANGED <<dest, writes>>
       ELSE LET grown == SliceVal(Top.arrayValue.t,
                                  Append(Top.arrayValue.elems, Top.field.elem))
                st == Store(SetTop([Top EXCEPT !.pc = "loop", !.arrayValue = grown,
                                               !.idx = @ + 1]),
                            Top.into,
                            Put(RootOf(stack, Top.into), Top.into.path, grown))
            IN /\ dest' = st.dest
               /\ stack' = st.stack
               /\ writes' = Append(writes, SetEvent(Top.into.base, Top.into.path, "array"))
               /\ ret' = <<>>
               /\ UNCHANGED <<status, result>>
    /\ UNCHANGED <<arrays, variant, scen, tk, read, nextRes, calls>>

\* The return of the recursive call in decodeArray: stream.go:194-203,
\* part_002:206-215.  reflect.Append panics unless arrayValue is a slice.
decodeArrayReturn ==
    /\ Running /\ Top.fn = "arr" /\ Top.pc = "await" /\ ret # <<>>
    /\ IF IsErr(ret[1])
       THEN Return(Front(stack), Wrapf(ret[1], Top.fieldPath))
       ELSE IF Top.arrayValue.k # "slice"
       THEN Panic
       ELSE /\ stack' = SetTop([Top EXCEPT
                                  !.pc = "loop",
                                  !.arrayValue = SliceVal(@.t, Append(@.elems, Top.field.elem)),
                                  !.idx = @ + 1])
            /\ ret' = <<>>
            /\ UNCHANGED <<status, result>>
    /\ UNCHANGED <<arrays, variant, scen, dest, tk, read, nextRes, writes, calls>>

\* ------------------------------------------------------------------ spec
Next ==
    \/ ValidateParse
    \/ decodeAnything
    \/ decodeObjectEntry
    \/ decodeObjectKey
    \/ decodeObjectReturn
    \/ decodeArrayEntry
    \/ decodeArrayElem
    \/ decodeArrayReturn

Spec == Init /\ [][Next]_vars

\* A call of ValidateParse runs on: the decoder is sequential code that
\* waits for nothing but the reader, and the reader answers every call.
FairSpec == Spec /\ WF_vars(Next)

\* ------------------------------------------------- the token cursor alone
\* The Decoder under any caller: Token and nextToken called in any order
\* on the tokens of any document of the scenarios.
CursorInit ==
    /\ variant \in Variants
    /\ scen \in 1..Len(Scenarios)
    /\ dest = Scenarios[scen].arg
    /\ tk = [open |-> <<>>, expect |-> "value"]
    /\ read = <<>>
    /\ nextRes = <<>>
    /\ stack = <<>>
    /\ ret = <<>>
    /\ status = "cursor"
    /\ result = NoErr
    /\ writes = <<>>
    /\ calls = <<>>
    /\ arrays = <<>>

\* One call of Decoder.Token: stream.go:26-33, part_002:27-34
DecoderToken ==
    /\ status = "cursor" /\ Len(calls) < MaxCalls
    /\ \E o \in Token(nextRes, tk, read, Sc) : Cursor(o)
    /\ UNCHANGED <<arrays, variant, scen, dest, stack, ret, status, result, writes>>

\* One call of Decoder.nextToken: stream.go:35-44, part_002:36-45
DecoderNextToken ==
    /\ status = "cursor" /\ Len(calls) < MaxCalls
    /\ \E o \in NextToken(nextRes, tk, read, Sc) : Cursor(o)
    /\ UNCHANGED <<arrays, variant, scen, dest, stack, ret, status, result, writes>>

CursorNext == DecoderToken \/ DecoderNextToken

CursorSpec == CursorInit /\ [][CursorNext]_vars

\* ------------------------------------------------------ the paths as slices
\* Baton.path is a []string: a slice header (backing array, len, cap).
\* decodeObject and decodeArray extend it with append (stream.go:192, 258;
\* part_002:204, 275), which writes into the backing array of its argument
\* when that has room and copies into a new array otherwise; how much room
\* a new array has beyond what is needed is the runtime's choice.  An
\* array that no slice of a call in progress refers to is garbage: its
\* place in `arrays` is emptied and taken by a later allocation.  Here
\* the nest of decodeObject / decodeArray calls is followed with its paths
\* alone: which keys and elements come, and which of them fail, is free.
\* arr is the index of the backing array in `arrays` (0: none).
Slice(arr, len, cap) == [arr |-> arr, len |-> len, cap |-> cap]
\* []string{} (stream.go:62)
EmptySlice == Slice(0, 0, 0)
\* The elements of a slice
Elems(arrs, h) == IF h.len = 0 THEN <<>> ELSE SubSeq(arrs[h.arr], 1, h.len)

\* The place a new array takes, and the arrays with it in that place
FreeSlot(arrs) ==
    LET free == {i \in 1..Len(arrs) : arrs[i] = <<>>}
    IN IF free = {} THEN Len(arrs) + 1 ELSE CHOOSE i \in free : \A j \in free : i <= j
Allocate(arrs, a) ==
    IF FreeSlot(arrs) > Len(arrs) THEN Append(arrs, a)
    ELSE [arrs EXCEPT ![FreeSlot(arrs)] = a]
\* The arrays once those that no call in stk refers to are collected
Collect(arrs, stk) ==
    LET live == {stk[n].path.arr : n \in 1..Len(stk)} \cup
                {stk[n].fieldPath.arr : n \in 1..Len(stk)}
    IN [i \in 1..Len(arrs) |-> IF i \in live THEN arrs[i] ELSE <<>>]

\* append that, out of room, allocates without copying what the slice holds
appendFresh(arrs, h, seg) ==
    IF h.len < h.cap
    THEN {[slice |-> [h EXCEPT !.len = @ + 1],
           arrays |-> [arrs EXCEPT ![h.arr][h.len + 1] = seg]]}
    ELSE {[slice |-> Slice(FreeSlot(arrs), h.len + 1, c),
           arrays |-> Allocate(arrs, [i \in 1..c |-> IF i = h.len + 1 THEN seg ELSE ""])] :
             c \in (h.len + 1)..(2 * (h.len + 1))}

\* append(h, seg): every outcome, as the new slice and the arrays after it
append(arrs, h, seg) ==
    IF h.len < h.cap
    THEN {[slice |-> [h EXCEPT !.len = @ + 1],
           arrays |-> [arrs EXCEPT ![h.arr][h.len + 1] = seg]]}
    ELSE {[slice |-> Slice(FreeSlot(arrs), h.len + 1, c),
           arrays |-> Allocate(arrs, [i \in 1..c |->
                                        IF i <= h.len THEN arrs[h.arr][i]
                                        ELSE IF i = h.len + 1 THEN seg ELSE ""])] :
             c \in (h.len + 1)..(2 * (h.len + 1))}

\* A call with its Baton.path, its fieldPath, and where it stands: fn is
\* "obj", "arr" or "any" (a scalar), at the keys and indices that lead to
\* its value from the root, seg the key or index of the child it waits for.
PathFrame(fn, path, at) ==
    [fn |-> fn, pc |-> "loop", path |-> path, fieldPath |-> EmptySlice,
     at |-> at, seg |-> "", idx |-> 0]

PathInit ==
    /\ variant \in Variants
    /\ scen = 4
    /\ dest = Scenarios[scen].arg
    /\ tk = [open |-> <<>>, expect |-> "value"]
    /\ read = <<>>
    /\ nextRes = <<>>
    /\ \E fn \in {"obj", "arr"} : stack = <<PathFrame(fn, EmptySlice, <<>>)>>
    /\ ret = <<>>
    /\ status = "path"
    /\ result = NoErr
    /\ writes = <<>>
    /\ calls = <<>>
    /\ arrays = <<>>

PathUnchanged == UNCHANGED <<variant, scen, dest, tk, read, nextRes, writes, calls>>

\* fieldPath := append(baton.path, ...) and the recursive decodeAnything
\* with path: fieldPath (stream.go:192-198, 258-263)
PathDescend ==
    /\ status = "path" /\ stack # <<>> /\ ret = <<>>
    /\ Top.fn \in {"obj", "arr"} /\ Top.pc = "loop" /\ Top.idx < MaxTurns
    /\ \E seg \in (IF Top.fn = "obj" THEN {"a", "b"} ELSE {ToString(Top.idx)}) :
       \E a \in append(arrays, Top.path, seg) :
       \E fn \in (IF Len(stack) < MaxPathDepth THEN {"obj", "arr", "any"} ELSE {"any"}) :
          /\ arrays' = a.arrays
          /\ stack' = Append(SetTop([Top EXCEPT !.pc = "await", !.fieldPath = a.slice,
                                                !.seg = seg]),
                             PathFrame(fn, a.slice, Append(Top.at, seg)))
    /\ UNCHANGED <<ret, status, result>>
    /\ PathUnchanged

\* A call returns nil or an error it met itself (stream.go:75, 164, 181,
\* 187, 232, 235 and the other returns that wrap nothing).
PathLeave ==
    /\ status = "path" /\ stack # <<>> /\ ret = <<>> /\ Top.pc = "loop"
    /\ \E e \in {NoErr, Err("StreamError")} :
          /\ stack' = Front(stack)
          /\ ret' = IF Len(stack) = 1 THEN <<>> ELSE <<e>>
          /\ status' = IF Len(stack) = 1 THEN "pathdone" ELSE status
          /\ result' = IF Len(stack) = 1 THEN e ELSE result
    /\ arrays' = Collect(arrays, stack')
    /\ PathUnchanged

\* The recursive call has returned: errors.Wrapf with strings.Join of
\* fieldPath, or the next turn of the loop (stream.go:198-203, 263-267).
PathResume ==
    /\ status = "path" /\ stack # <<>> /\ ret # <<>> /\ Top.pc = "await"
    /\ IF IsErr(ret[1])
       THEN LET e == Wrapf(ret[1], Elems(arrays, Top.fieldPath)) IN
            /\ stack' = Front(stack)
            /\ ret' = IF Len(stack) = 1 THEN <<>> ELSE <<e>>
            /\ status' = IF Len(stack) = 1 THEN "pathdone" ELSE status
            /\ result' = IF Len(stack) = 1 THEN e ELSE result
       ELSE /\ stack' = SetTop([Top EXCEPT !.pc = "loop", !.idx = @ + 1,
                                           !.fieldPath = EmptySlice, !.seg = ""])
            /\ ret' = <<>>
            /\ UNCHANGED <<status, result>>
    /\ arrays' = Collect(arrays, stack')
    /\ PathUnchanged

PathNext == PathDescend \/ PathLeave \/ PathResume

PathSpec == PathInit /\ [][PathNext]_vars

\* ===================================================================
\* Properties
\* ===================================================================
\* The step popped the frame on top, which returned to its caller.
Pops == status' # "panic" /\ Len(stack') = Len(stack) - 1
\* What the popped frame returned (to its caller, or from ValidateParse)
Delivered == IF stack' = <<>> THEN result' ELSE ret'[1]
\* The step pulled one token from the underlying tokenizer
Pulled == Len(read') = Len(read) + 1 /\ ~read'[Len(read')].err
PulledToken == read'[Len(read')].token
\* The `into` argument as the caller passed it
Arg == Scenarios[scen].arg
\* The error kinds of a schema/destination mismatch and of a constraint
StructuralMismatch ==
    {"CheckerType", "StringKind", "UnexpectedNumber", "NumberKind", "BoolType", "BoolKind",
     "NotExpectingObject", "NotExpectingArray"}
ConstraintViolation == {"CheckerMaximum"}

\* C1: ValidateParse called with a destination that is not a pointer, or
\* is a nil pointer, returns InvalidDestination, pulls no token, never
\* reaches decodeAnything and never crashes.
C1_InvalidDestinationRejected ==
    (status # "init" /\ (Arg.k # "ptr" \/ Arg.isnil)) =>
        /\ status = "done"
        /\ result.kind = "InvalidDestination"
        /\ read = <<>>
        /\ stack = <<>>

\* decodeObject reads, in this step, a key that has no entry in the
\* properties of its schema.
UnknownKeyStep ==
    /\ Running /\ Top.fn = "obj" /\ Top.pc = "loop" /\ ret = <<>>
    /\ Pulled /\ PulledToken.t = "string"
    /\ PulledToken.v \notin DOMAIN Top.schema.props

\* C2: in decodeObject, a key with no entry in the schema's properties
\* while additional properties are disallowed (policy absent or
\* Allows = false) makes decodeObject return an UnknownProperty error at
\* once: the key's value is not decoded (no token beyond the key is
\* pulled, no frame is pushed) and nothing is written; the error then
\* travels up to the caller of ValidateParse.
C2_UnknownPropertyRejected ==
    /\ [][(UnknownKeyStep /\ Top.schema.addl \in {"nil", "deny"}) =>
            /\ Pops
            /\ Delivered.kind = "UnknownProperty"
            /\ dest' = dest /\ writes' = writes
            /\ Len(read') = Len(read) + 1]_vars
    /\ [][(ret # <<>> /\ ret[1].kind = "UnknownProperty") =>
            Pops /\ Delivered.kind = "UnknownProperty" /\ dest' = dest /\ read' = read]_vars

\* C2 witness: ValidateParse has returned UnknownProperty for a key under
\* a schema whose policy is Allows = false, the destination untouched.
C2_Witness ==
    /\ status = "done" /\ result.kind = "UnknownProperty"
    /\ Sc.schema.addl = "deny"
    /\ read[Len(read)].token = Tok("string", "missing")
    /\ dest = Arg /\ writes = <<>>


\* The frame on top decodes the value of a key that has no schema entry
\* under a schema that allows additional properties.
UnknownAllowedValue ==
    /\ Running /\ Len(stack) >= 2 /\ ~Top.schema.present
    /\ stack[Len(stack) - 1].fn = "obj" /\ stack[Len(stack) - 1].pc = "await"

\* C3: when a key has no schema entry and additional properties are
\* allowed, the decode of that key's value succeeds (it returns no error
\* but that of a broken stream, and does not crash) and leaves the
\* destination unchanged, also when the destination has a field of that
\* name.
C3_UnknownAllowedSkipped ==
    [][UnknownAllowedValue =>
         /\ status' # "panic"
         /\ dest' = dest
         /\ Pops => Delivered.kind \in {"nil", "StreamError"}]_vars

\* C4: whenever the Bind Context has no schema (unknown but permitted
\* property, or no root schema) the value is consumed whatever its shape,
\* the call returns success (or the stream's error), nothing is bound,
\* and the cursor is left right after the value with its lookahead empty.
C4_NoSchemaConsumed ==
    [][(Running /\ ~Top.schema.present) =>
         /\ status' # "panic"
         /\ dest' = dest /\ writes' = writes
         /\ Pops => /\ Delivered.kind \in {"nil", "StreamError"}
                    /\ nextRes' = <<>>
                    /\ ~IsErr(Delivered) => Len(tk'.open) = Len(stack) - 1]_vars

\* C5: a scalar that fails with a structural mismatch or a constraint
\* violation leaves the caller's destination exactly as it was: nothing
\* written, no pointer on the way allocated.
C5_NoMutationOnFailure ==
    [][(Running /\ Top.fn = "any" /\ Pops
          /\ Delivered.kind \in StructuralMismatch \cup ConstraintViolation) =>
         dest' = dest]_vars

\* The frame on top binds, in this step, the token it pulls into a field
\* of the caller's destination that is a pointer, under a schema.
OptionalFieldStep ==
    /\ Running /\ Top.fn = "any" /\ ret = <<>> /\ Pulled
    /\ Top.schema.present /\ Top.into.valid /\ Top.into.base = 0
    /\ Get(dest, Top.into.path).k = "ptr"

\* C6: when a property with a schema and a pointer destination carries
\* null and its decode succeeds, the pointer is nil afterwards whatever
\* it held before, and nothing was allocated.
C6_NullLeavesAbsent ==
    [][(OptionalFieldStep /\ PulledToken = NullTok /\ Pops /\ ~IsErr(Delivered)) =>
         /\ Get(dest', Top.into.path).isnil
         /\ writes' = writes]_vars

\* C7: a string decoded under a string schema into an absent *string, and
\* an object decoded under an object schema into an absent pointer to a
\* record, allocate the pointer and bind into what it points to: the call
\* does not crash and the destination is present and holds the value.
C7_AbsentOptionalAllocated ==
    /\ [][(OptionalFieldStep /\ PulledToken.t = "string"
             /\ Top.schema.type = {"string"}
             /\ Get(dest, Top.into.path) = NilPtr(TString)) =>
            /\ Pops /\ ~IsErr(Delivered)
            /\ Get(dest', Top.into.path) = PtrTo(TString, StrVal(PulledToken.v))]_vars
    /\ [][(Running /\ Top.fn = "obj" /\ Top.pc = "entry"
             /\ Top.schema.present /\ "object" \in Top.schema.type
             /\ Top.into.valid /\ Top.into.base = 0
             /\ Get(dest, Top.into.path) = NilPtr(TChild)) =>
            /\ status' # "panic"
            /\ Get(dest', Top.into.path) = New(TChild)
            /\ stack'[Len(stack')].rec = Handle(0, Top.into.path \o <<0>>)]_vars

\* decodeArray returns success in this step (it has seen the closing
\* delimiter); its destination is in the caller's graph.
ArrayCloses ==
    /\ Running /\ Top.fn = "arr" /\ Top.pc = "loop" /\ ret = <<>>
    /\ Top.into.base = 0
    /\ Pops /\ ~IsErr(Delivered)

\* What a scalar or null element token makes of an element of type t
DecodedElement(t, token) ==
    IF t.k = "ptr"
    THEN IF token = NullTok THEN NilPtr(t.elem) ELSE PtrTo(t.elem, StrVal(token.v))
    ELSE IF token = NullTok THEN Zero(t) ELSE StrVal(token.v)

\* The sequence holds exactly the n elements the array had, in input
\* order (the n tokens before the closing delimiter).
HoldsElements(seq, n) ==
    /\ seq.k = "slice"
    /\ Len(seq.elems) = n
    /\ \A i \in 1..n :
          seq.elems[i] = DecodedElement(seq.t, read'[Len(read') - n - 1 + i].token)

\* C8: after a successful decode of an array of n elements the destination
\* sequence has length n and holds the decoded elements in input order, a
\* null element being an absent entry when elements are pointers.
C8_ArrayInInputOrder ==
    [][(ArrayCloses /\ Get(dest, Top.into.path).k = "slice") =>
         HoldsElements(Get(dest', Top.into.path), Top.idx)]_vars

\* What the handle h holds, in the destination d or in the element a
\* frame of the stack stk decodes into.
Held(stk, d, h) == IF h.base = 0 THEN Get(d, h.path) ELSE Get(stk[h.base].field, h.path)

\* decodeArray returns success in this step, wherever its destination is.
ArrayReturnsNil ==
    /\ Running /\ Top.fn = "arr" /\ Top.pc = "loop" /\ ret = <<>>
    /\ Pops /\ ~IsErr(Delivered)

\* C9: the destination sequence of a decodeArray is mutated exactly once,
\* in the step that observes the closing delimiter, and then holds the
\* accumulated sequence; every other step taken while that decodeArray is
\* on the call stack (an element decoded, an element failing, the stream
\* failing, the call returning an error) leaves it as it was, so no
\* partial array is ever in the destination.
C9_ArraySetOnceAtClose ==
    /\ [][\A i \in 1..Len(stack) :
            (status = "running" /\ stack[i].fn = "arr" /\ stack[i].into.valid
               /\ ~(i = Len(stack) /\ ArrayReturnsNil)) =>
                 Held(stack', dest', stack[i].into) = Held(stack, dest, stack[i].into)]_vars
    /\ [][ArrayReturnsNil =>
            /\ writes' = Append(writes, SetEvent(Top.into.base, Top.into.path, "array"))
            /\ Held(stack', dest', Top.into) = Top.arrayValue]_vars

\* C9 witness: decoding into a record whose sequence already holds an
\* entry, the second element of the array failed after the first had been
\* accumulated; ValidateParse has returned the error wrapped with the
\* element's path, and the destination is as the caller passed it.
C9_Witness ==
    /\ dest = PtrTo(TArr(TSlice(TString)), ArrSet)
    /\ status = "done" /\ IsErr(result)
    /\ Len(result.wraps) = 2 /\ result.wraps[2] = <<"arr", "1">>
    /\ dest = Arg /\ writes = <<>>

\* C10: a successful decode of an array into a pointer to a sequence
\* leaves the pointer present, the sequence holding the elements in input
\* order.
C10_PointerToSequence ==
    [][(ArrayCloses /\ Get(dest, Top.into.path).k = "ptr") =>
         /\ ~Get(dest', Top.into.path).isnil
         /\ HoldsElements(Get(dest', Top.into.path).elem, Top.idx)]_vars

\* ------------------------------------------------ the path of a token
\* The place of the cursor in the document, from the tokens handed out so
\* far: the open containers, outermost first, each an object with the key
\* whose value is due ("" while a key is due) or an array with the index
\* of the element that is due.
Advance(ctx) ==
    IF ctx = <<>> THEN ctx
    ELSE IF ctx[Len(ctx)].c = "{" THEN [ctx EXCEPT ![Len(ctx)].key = ""]
    ELSE [ctx EXCEPT ![Len(ctx)].idx = @ + 1]

KeyDue(ctx) == ctx # <<>> /\ ctx[Len(ctx)].c = "{" /\ ctx[Len(ctx)].key = ""

AfterToken(ctx, token) ==
    IF token.t = "delim" /\ token.v \in {"}", "]"} THEN Advance(Front(ctx))
    ELSE IF KeyDue(ctx) THEN [ctx EXCEPT ![Len(ctx)].key = token.v]
    ELSE IF token.t = "delim" THEN Append(ctx, [c |-> token.v, key |-> "", idx |-> 0])
    ELSE Advance(ctx)

RECURSIVE Place(_)
Place(rd) ==
    IF rd = <<>> THEN <<>>
    ELSE IF rd[Len(rd)].err THEN Place(Front(rd))
    ELSE AfterToken(Place(Front(rd)), rd[Len(rd)].token)

\* The path of the value that is due at a place: the keys and indexes of
\* the open containers (of the object itself while a key is due).
RECURSIVE PathAt(_)
PathAt(ctx) ==
    IF ctx = <<>> THEN <<>>
    ELSE IF KeyDue(ctx) THEN PathAt(Front(ctx))
    ELSE Append(PathAt(Front(ctx)),
                IF ctx[Len(ctx)].c = "{" THEN ctx[Len(ctx)].key
                ELSE ToString(ctx[Len(ctx)].idx))

\* The path of what the last result of the tokenizer is about: of the value
\* a token starts (of the property a key names), or, for a stream error,
\* of the value that was due.
OffendingPath(rd) ==
    LET before == Place(Front(rd))
        last == rd[Len(rd)]
    IN IF ~last.err /\ KeyDue(before) THEN Append(PathAt(before), last.token.v)
       ELSE PathAt(before)

\* The same, but a stream error met where an element or the end of an
\* array is due is about the array.
ObservedPath(rd) ==
    LET before == Place(Front(rd))
    IN IF rd[Len(rd)].err /\ before # <<>> /\ before[Len(before)].c = "["
       THEN PathAt(Front(before))
       ELSE OffendingPath(rd)

\* The path an error carries: that of its innermost wrap, followed by the
\* key the message of an unknown property names.
CarriedPath(e) ==
    (IF e.wraps = <<>> THEN <<>> ELSE e.wraps[Len(e.wraps)])
    \o (IF e.kind = "UnknownProperty" THEN <<e.arg>> ELSE <<>>)

\* The wraps of an error name every step from the root down in order: the
\* j-th is the first j segments of the innermost.
WrapsFromRoot(e) ==
    \A j \in 1..Len(e.wraps) :
        e.wraps[j] = SubSeq(e.wraps[Len(e.wraps)], 1, j)

\* C11 as stated: the error ValidateParse returns for a failure in the
\* document carries the full path, every name and index from the root
\* down, of the value the failure is at.
C11_FullPathOfOffendingValue ==
    (status = "done" /\ IsErr(result) /\ read # <<>>) =>
        WrapsFromRoot(result) /\ CarriedPath(result) = OffendingPath(read)

\* C11 amended: the error ValidateParse returns for a failure in the
\* document carries the full path, every name and index from the root
\* down, of the value the failure is at, except that a stream error met
\* where an array element (or the closing delimiter) is due carries the
\* path of the array without the element's index.
C11_FullPathOfObservingFrame ==
    (status = "done" /\ IsErr(result) /\ read # <<>>) =>
        WrapsFromRoot(result) /\ CarriedPath(result) = ObservedPath(read)

\* C11 witness: a value two levels below the root was rejected and the
\* error names both levels.
C11_Witness ==
    /\ status = "done" /\ IsErr(result) /\ read # <<>>
    /\ ~read[Len(read)].err
    /\ Len(CarriedPath(result)) = 2
    /\ CarriedPath(result) = OffendingPath(read)

\* The results pulled so far are the tokens of exactly one complete value:
\* the last closes the root value and no shorter run of them does.
OneCompleteValue(rd) ==
    /\ rd # <<>>
    /\ \A i \in 1..Len(rd) : ~rd[i].err
    /\ Place(rd) = <<>>
    /\ \A n \in 1..(Len(rd) - 1) : Place(SubSeq(rd, 1, n)) # <<>>

\* C12: when ValidateParse returns success, what was pulled from the
\* underlying tokenizer is exactly the tokens of the root value, each
\* pulled once: no pull went beyond its end (no end-of-input result was
\* drawn), none stopped short of it, and the token peeked before each
\* array element was handed on, the lookahead being empty at the end.
C12_SingleConsumption ==
    (status = "done" /\ ~IsErr(result)) =>
        /\ OneCompleteValue(read)
        /\ tk.open = <<>> /\ tk.expect = "eof"
        /\ nextRes = <<>>

\* C12 witness: a document holding an array of two elements was decoded
\* with success, each element having been peeked first.
C12_Witness ==
    /\ status = "done" /\ ~IsErr(result)
    /\ Len(read) >= 4
    /\ read[Len(read) - 2].token.t = "string"
    /\ read[Len(read) - 1].token = Delim("]")

\* The results the decoder has consumed: those pulled, less the one that
\* waits in nextRes.
Consumed(rd, nr) == IF nr = <<>> THEN rd ELSE Front(rd)

\* The delimiter that opens the value a frame decodes
Opener(fn) == IF fn = "obj" THEN "{" ELSE "["
Closer(fn) == IF fn = "obj" THEN Delim("}") ELSE Delim("]")

\* Every decodeObject and decodeArray call on the stack stands in the
\* container its decodeAnything opened: the i-th call in the i-th open
\* container; a decodeAnything that has not read its token yet stands
\* before a value of the container of its caller.  (Not so while an
\* error unwinds the calls: the containers stay open.)
CallsFollowDocument ==
    (Running /\ (ret = <<>> \/ ~IsErr(ret[1]))) =>
        LET place == Place(Consumed(read, nextRes)) IN
        /\ \A i \in 1..Len(stack) :
              stack[i].fn # "any" =>
                  i <= Len(place) /\ place[i].c = Opener(stack[i].fn)
        /\ Len(place) = IF Top.fn = "any" THEN Len(stack) - 1 ELSE Len(stack)
        /\ Top.fn = "any" => ~KeyDue(place)

\* C13: every decodeAnything call that returns success has consumed
\* exactly one complete value, a single scalar token or everything from an
\* opening delimiter through the one that matches it, and leaves nextRes
\* empty, whether the value was bound, had no schema or no destination.
C13_OneValuePerCall ==
    /\ []CallsFollowDocument
    /\ [][(Running /\ Pops /\ ~IsErr(Delivered)) =>
            /\ nextRes' = <<>>
            /\ ~read'[Len(read')].err
            /\ Len(Consumed(read', nextRes')) = Len(Consumed(read, nextRes)) + 1
            /\ Len(Place(read')) = Len(stack) - 1
            /\ IF Top.fn = "any"
               THEN read'[Len(read')].token.t # "delim"
               ELSE read'[Len(read')].token = Closer(Top.fn)]_vars

\* C13 witness: the decodeAnything call for a key with no schema and no
\* field has returned success to decodeObject, one scalar consumed,
\* nothing bound.
C13_Witness ==
    /\ Running /\ ret = <<NoErr>>
    /\ Top.fn = "obj" /\ Top.fieldPath = <<"missing">>
    /\ read[Len(read)].token.t # "delim"
    /\ nextRes = <<>> /\ dest = Arg

\* A field declares an explicit serialization name: its json tag names it.
HasExplicitName(f) == f.hasTag /\ f.tag # ""

\* The field the field map is to resolve a key to (0: none): the field
\* whose explicit name is the key; failing that, a field with no explicit
\* name whose identifier is the key but for case.
ResolvedField(sv, keyName) ==
    LET byName == {i \in 1..Len(sv.fields) :
                      HasExplicitName(sv.fields[i]) /\ sv.fields[i].tag = keyName}
        byIdent == {i \in 1..Len(sv.fields) :
                      /\ ~HasExplicitName(sv.fields[i])
                      /\ ToLower(sv.fields[i].name) = ToLower(keyName)}
    IN IF byName # {} THEN Max(byName)
       ELSE IF byIdent # {} THEN Max(byIdent)
       ELSE 0

\* C14: the destination decodeObject hands to the decode of a key's value
\* is the field whose explicit serialization name is the key, before any
\* other; failing that the field without an explicit name whose
\* identifier equals the key case-insensitively; and no field otherwise
\* (a field with an explicit name is never found through its identifier).
C14_FieldMapResolution ==
    [][(Running /\ Top.fn = "obj" /\ Top.pc = "loop" /\ Len(stack') = Len(stack) + 1) =>
         LET sv == Get(RootOf(Front(stack), Top.rec), Top.rec.path)
             fi == ResolvedField(sv, PulledToken.v)
         IN stack'[Len(stack')].into =
                IF fi = 0 THEN Invalid ELSE Handle(Top.rec.base, Append(Top.rec.path, fi))]_vars

\* The results the Token calls made so far returned, in order
IsToken(c) == c.op = "Token"
Returned == LET ts == SelectSeq(calls, IsToken) IN [i \in 1..Len(ts) |-> ts[i].res]

\* C15: a nextToken call is followed, whatever the next call is (another
\* nextToken, any number of times, or the consuming Token), by the same
\* result, token or error; the peeks since the last Token have pulled at
\* most one result from the underlying tokenizer; and what is pulled but
\* not yet handed out by Token is exactly what nextRes buffers, never
\* more than one result.
C15_PeekIdempotent ==
    /\ \A i \in 1..(Len(calls) - 1) :
          calls[i].op = "nextToken" => calls[i + 1].res = calls[i].res
    /\ Len(nextRes) <= 1
    /\ Len(read) = Len(Returned) + Len(nextRes)
    /\ nextRes # <<>> => nextRes[1] = read[Len(read)]

\* C15 witness: two peeks in a row, then Token, on a document's first token.
C15_Witness ==
    /\ status = "cursor" /\ Len(calls) = 3
    /\ calls[1].op = "nextToken" /\ calls[2].op = "nextToken" /\ calls[3].op = "Token"
    /\ ~calls[3].res.err /\ Len(read) = 1

\* C16: under any interleaving of nextToken and Token calls, the results
\* Token has returned are the results of the underlying tokenizer in
\* order, none twice, none dropped, none out of place: its output so far
\* less what is still buffered.
C16_CursorRefinesTokenizer ==
    /\ Returned = SubSeq(read, 1, Len(Returned))
    /\ Returned = Consumed(read, nextRes)

\* C16 witness: peeks and Token calls interleaved over several tokens.
C16_Witness ==
    /\ status = "cursor" /\ Len(calls) = 5
    /\ calls[1].op = "nextToken" /\ calls[2].op = "Token" /\ calls[3].op = "Token"
    /\ calls[4].op = "nextToken" /\ calls[5].op = "Token"
    /\ Len(Returned) = 3 /\ ~Returned[3].err

\* The frame on top decodes the value of a property that has a schema
\* and no field in the destination record.
DeclaredWithoutField ==
    /\ Running /\ Len(stack) >= 2
    /\ Top.schema.present /\ ~Top.into.valid

\* C17: the value of a property the schema declares and the destination
\* has no field for is consumed and dropped whatever its shape: its decode
\* does not crash, binds nothing, and returns no error (but that of a
\* broken stream, or of a value that is no object or array where the
\* schema wants none), so that the enclosing object goes on.
C17_MissingFieldDiscarded ==
    [][DeclaredWithoutField =>
         /\ status' # "panic"
         /\ dest' = dest /\ writes' = writes
         /\ Pops => Delivered.kind \in
                       {"nil", "StreamError", "NotExpectingObject", "NotExpectingArray"}]_vars

\* decodeObject or decodeArray starts, in this step, on an opening
\* delimiter that the type set of its (present) schema does not admit.
UnexpectedContainer ==
    /\ Running /\ Top.fn \in {"obj", "arr"} /\ Top.pc = "entry"
    /\ Top.schema.present
    /\ (IF Top.fn = "obj" THEN "object" ELSE "array") \notin Top.schema.type

\* C18: under a present schema, an object-open token whose type set lacks
\* object and an array-open token whose type set lacks array make the
\* call return a schema-violation error at once: no further token is
\* pulled and nothing is written or allocated in the destination.
C18_UnexpectedContainerRejected ==
    [][UnexpectedContainer =>
         /\ Pops
         /\ Delivered.kind = (IF Top.fn = "obj" THEN "NotExpectingObject"
                              ELSE "NotExpectingArray")
         /\ read' = read /\ nextRes' = nextRes
         /\ dest' = dest /\ writes' = writes]_vars

\* The kind a destination has once its pointers are followed, known from
\* its type also where a pointer is nil.
RECURSIVE TypeKind(_)
TypeKind(t) == IF t.k = "ptr" THEN TypeKind(t.elem) ELSE t.k
StaticKind(v) == IF v.k = "ptr" THEN TypeKind(v.t) ELSE v.k

\* The type set of a schema contains the category of a scalar token.
CategoryInTypes(schema, token) ==
    CASE token.t = "string" -> "string" \in schema.type
      [] token.t = "number" -> "number" \in schema.type \/ "integer" \in schema.type
      [] token.t = "bool" -> "boolean" \in schema.type

\* The static shape of a destination is compatible with a scalar token.
ShapeCompatible(kind, token) ==
    CASE token.t = "string" -> kind = "string"
      [] token.t = "number" -> kind \in NumberKinds
      [] token.t = "bool" -> kind = "bool"

\* The frame on top binds, in this step, a string, number or boolean token
\* under a present schema into a valid destination of the caller's graph.
ScalarBindStep ==
    /\ Running /\ Top.fn = "any" /\ ret = <<>> /\ Pulled
    /\ PulledToken.t \in {"string", "number", "bool"}
    /\ Top.schema.present /\ Top.into.valid /\ Top.into.base = 0

\* C19: a string, number or boolean token under a present schema and with
\* a valid destination is rejected with an error, the destination left
\* unwritten, whenever the schema's type set lacks the token's category
\* or the destination's static shape is not compatible with it.
C19_EngineChecksCategoryAndShape ==
    [][(ScalarBindStep
          /\ (\/ ~CategoryInTypes(Top.schema, PulledToken)
              \/ ~ShapeCompatible(StaticKind(Get(dest, Top.into.path)), PulledToken))) =>
         /\ Pops /\ IsErr(Delivered)
         /\ dest' = dest]_vars

\* A call has returned an error that its caller has not yet handled.
ErrorInFlight == Running /\ ret # <<>> /\ IsErr(ret[1])
\* The underlying tokenizer has reported an error.
StreamErrorSeen == \E i \in 1..Len(read) : read[i].err

\* C20: an error returned by a frame is returned, wrapped but with its
\* cause kept, by the enclosing frame in its next step, up to
\* ValidateParse, and in between no token is pulled or taken from the
\* lookahead and nothing is written or allocated; an error of the
\* tokenizer is returned by the frame that pulled it; so ValidateParse
\* returns nil only if no frame met an error.
C20_ErrorsUnwind ==
    /\ [](StreamErrorSeen => ErrorInFlight \/ (status = "done" /\ IsErr(result)))
    /\ [][ErrorInFlight =>
            /\ Pops /\ IsErr(Delivered)
            /\ Delivered.kind = ret[1].kind
            /\ UNCHANGED <<tk, read, nextRes, calls, dest, writes>>]_vars

C20_Witness ==
    /\ status = "done" /\ result.kind \in StructuralMismatch
    /\ Len(result.wraps) = 2
    /\ tk.expect # "eof" /\ ~StreamErrorSeen

\* The step consumes one token.
TakesOne ==
    /\ Len(Consumed(read', nextRes')) = Len(Consumed(read, nextRes)) + 1
    /\ ~Consumed(read', nextRes')[Len(Consumed(read', nextRes'))].err
\* The step of decodeArray's loop that looked at an element and handed it
\* to decodeAnything, which takes it in its first step.
HandsOverElement ==
    /\ Top.fn = "arr" /\ Len(stack') = Len(stack) + 1
    /\ stack'[Len(stack')].fn = "any" /\ ret' = <<>>
    /\ nextRes' # <<>> /\ ~nextRes'[1].err

\* C21: every call of ValidateParse ends (it returns, or the process
\* crashes); every turn of the object loop and of the array loop, and every
\* call of decodeAnything, takes a token, or returns the tokenizer's error
\* in the same step; and when the tokenizer has reported an error (the
\* input ended or is malformed) ValidateParse returns a StreamError, never
\* nil.
C21_Terminates ==
    /\ <>(status \in {"done", "panic"})
    /\ [][(/\ Running /\ ret = <<>>
           /\ Top.fn = "any" \/ (Top.fn \in {"obj", "arr"} /\ Top.pc = "loop")) =>
            \/ status' = "panic"
            \/ TakesOne
            \/ HandsOverElement
            \/ read'[Len(read')].err /\ Pops /\ Delivered.kind = "StreamError"]_vars
    /\ []((status = "done" /\ StreamErrorSeen) => result.kind = "StreamError")

\* A document cut off inside an array inside an object
C21_Witness ==
    /\ status = "done" /\ result.kind = "StreamError"
    /\ Len(tk.open) = 2 /\ tk.open[2] = "[" /\ Len(read) >= 4
    /\ read[Len(read)].err /\ read[Len(read) - 1].token.t # "delim"

\* The keys and string values the tokenizer has handed out
StringsRead == {read[i].token.v : i \in {j \in 1..Len(read) : read[j].token.t = "string"}}

\* No field of the record that decodeObject frame n fills (in the caller's
\* graph) changes in this step, but the field named by the key whose value
\* is being decoded.
OtherFieldsKept(n) ==
    LET f == stack[n] IN
    (f.fn = "obj" /\ f.pc \in {"loop", "await"} /\ f.rec.base = 0) =>
        LET sv == Get(dest, f.rec.path)
            after == Get(dest', f.rec.path)
        IN \A j \in 1..Len(sv.fields) :
              \/ /\ f.pc = "await"
                 /\ ResolvedField(sv, f.fieldPath[Len(f.fieldPath)]) = j
              \/ after.fields[j].val = sv.fields[j].val

\* C22: at every moment of a call, and so when it has returned nil, an
\* error, or crashed, a field of the caller's record that no key read so
\* far names holds what it held before the call; and a step changes, in
\* any record being filled, only the field named by the key whose value
\* is being decoded.
C22_UnnamedFieldsUntouched ==
    /\ []((Arg.k = "ptr" /\ ~Arg.isnil /\ Arg.elem.k = "struct") =>
            \A j \in 1..Len(Arg.elem.fields) :
               (\A k \in StringsRead : ResolvedField(Arg.elem, k) # j) =>
                   Get(dest, <<0, j>>) = Get(Arg, <<0, j>>))
    /\ [][status = "running" => \A n \in 1..Len(stack) : OtherFieldsKept(n)]_vars

\* TestParsePointers (src/stream_test.go:108-157): setValue is read and
\* set, omit is not read and stays nil
C22_Witness ==
    /\ Arg = New(TPointers) /\ status = "done" /\ ~IsErr(result)
    /\ "omit" \notin StringsRead
    /\ Get(dest, <<0, 3>>) = PtrTo(TString, StrVal("a"))
    /\ Get(dest, <<0, 1>>) = NilPtr(TString)

\* C23: the path of every call in progress, read from its slice, is the
\* keys and indices that lead from the root to the value the call decodes;
\* the path of a child is its parent's followed by the one segment of the
\* child; the fieldPath a parent keeps while a child runs, and joins into
\* the error it wraps, stays that of the child; and no step changes what
\* the path of a call that stays in progress reads, whatever backing
\* arrays the slices share.
C23_PathIsLocation ==
    /\ [](status = "path" =>
            \A n \in 1..Len(stack) :
               /\ Elems(arrays, stack[n].path) = stack[n].at
               /\ stack[n].pc = "await" =>
                    /\ Elems(arrays, stack[n].fieldPath) = Append(stack[n].at, stack[n].seg)
                    /\ n < Len(stack) =>
                         Elems(arrays, stack[n + 1].path) =
                            Append(Elems(arrays, stack[n].path), stack[n].seg))
    /\ [][status = "path" =>
            /\ \A n \in 1..Len(stack) :
                  n <= Len(stack') =>
                     Elems(arrays', stack'[n].path) = Elems(arrays, stack[n].path)
            /\ (Top.pc = "await" /\ ret # <<>> /\ IsErr(ret[1])) =>
                  Delivered.wraps = <<Append(Top.at, Top.seg)>> \o ret[1].wraps]_vars

\* The second child of a call, three levels down, whose path lies in the
\* backing array the path of the first child lay in
C23_Witness ==
    /\ status = "path" /\ Len(stack) = 3
    /\ stack[2].idx = 1 /\ stack[2].pc = "await"
    /\ stack[3].path.arr # 0 /\ stack[3].path.arr = stack[2].path.arr
    /\ stack[3].path.len = 2

\* What the engine converts a json.Number to for a destination of a kind:
\* Float64() for the float kinds, Int64() for the integer kinds.
Converted(kind, lit) ==
    IF kind \in FloatKinds THEN NumVal(kind, Float64Of(lit))
    ELSE NumVal(kind, Int64Of(lit))

\* C24: a number token its schema permits, bound into a destination that
\* is not a pointer, never crashes; when the destination's kind is a float
\* or integer kind the call returns nil with the converted value, of that
\* kind, written, or returns an error with nothing written; for any other
\* kind it returns an error with nothing written.
C24_NumericKindsNeverCrash ==
    [][(/\ ScalarBindStep /\ PulledToken.t = "number"
        /\ CategoryInTypes(Top.schema, PulledToken)
        /\ Get(dest, Top.into.path).k # "ptr") =>
         LET kind == Get(dest, Top.into.path).k IN
         /\ Pops
         /\ IF IsErr(Delivered) THEN dest' = dest
            ELSE /\ kind \in NumberKinds
                 /\ dest' = Put(dest, Top.into.path, Converted(kind, PulledToken.v))]_vars

\* decodeArray looks at the next element, or at the end, of an array whose
\* schema declares the type array and no items.
NoItemsTurn ==
    /\ Running /\ Top.fn = "arr" /\ Top.pc = "loop" /\ ret = <<>>
    /\ "array" \in Top.schema.type /\ Top.schema.items = <<>>

\* C25: a turn of decodeArray's loop under a schema that declares the type
\* array and no items never crashes: it returns (nil at the closing
\* delimiter, or an error) or decodes the element with no schema.
C25_MissingItemsDefined ==
    [][NoItemsTurn =>
         /\ status' # "panic"
         /\ \/ Pops
            \/ /\ Len(stack') = Len(stack) + 1
               /\ ~stack'[Len(stack')].schema.present]_vars
====
